---- MODULE Spec2Model ----
(***************************************************************************)
(* Window Weather Monitor (Arduino Code/WeatherMonitorV2.cpp).             *)
(*                                                                         *)
(* The controller is a single cooperative loop: setup() runs once, then    *)
(* loop() calls SinricPro.handle, handleKeypad, handleRainSensor,          *)
(* handleTemperaturesensor and handleDisplay for ever.  The state is the   *)
(* file's globals, the millisecond clock read by millis(), and the place   *)
(* of the single thread of control (pc).  Every handler call is one step;  *)
(* the clock may advance between any two calls.                            *)
(*                                                                         *)
(* millis() is an unsigned long (32 bits on the ESP32).  TLC's integers    *)
(* stop below 2^31, so the clock is modelled with ClockBits bits and the   *)
(* same modular arithmetic; all periods are the program's own values.      *)
(***************************************************************************)
EXTENDS Integers, Sequences, FiniteSets, TLC

(***************************************************************************)
(* Bounds of the model.                                                    *)
(***************************************************************************)
ClockBits == 29
Step == 5000
NearPoints == 3
FarPoints == 2
HighPoints == 2
MaxPending == 1

(***************************************************************************)
(* Program constants.                                                      *)
(***************************************************************************)
EVENT_WAIT_TIME == 60000
LM393_sample_interval == 10 * 1000

ClockMod == 2^ClockBits

\* Never: "no such event yet" in the elapsed-time observers (out of the clock's range).
Never == ClockMod

\* NaN: the value the DHT driver returns for a failed read.
NaN == -1

\* digitalRead(rainDigital): 0 is wet, 1 is dry (file header, lines 15-17);
\* NoSample stands for "not read yet".
Wet == 0
Dry == 1
NoSample == 2

\* The DHT driver's answers tried by the model: (temperature, humidity).
DHTSamples == {<<NaN, 50>>, <<20, NaN>>, <<20, 50>>, <<21, 55>>}

(***************************************************************************)
(* The clock.  millis() is observed at the points k*Step just after boot   *)
(* (k in 0..NearPoints), at EVENT_WAIT_TIME + k*Step (k in 0..FarPoints)   *)
(* and at the last HighPoints points before the counter wraps to 0; it     *)
(* moves from one point to the next, cyclically.                           *)
(***************************************************************************)
ClockPoints ==
    {k * Step : k \in 0..NearPoints}
      \cup {EVENT_WAIT_TIME + k * Step : k \in 0..FarPoints}
      \cup {ClockMod - k * Step : k \in 1..HighPoints}

NextPoint(t) ==
    IF t = NearPoints * Step THEN EVENT_WAIT_TIME
    ELSE IF t = EVENT_WAIT_TIME + FarPoints * Step THEN ClockMod - HighPoints * Step
    ELSE (t + Step) % ClockMod

\* Milliseconds that pass when the clock moves on from point t.
Delta(t) ==
    IF t = NearPoints * Step THEN EVENT_WAIT_TIME - NearPoints * Step
    ELSE IF t = EVENT_WAIT_TIME + FarPoints * Step
         THEN ClockMod - HighPoints * Step - EVENT_WAIT_TIME - FarPoints * Step
    ELSE Step

\* Elapsed-time observers: e milliseconds so far, d more pass.
Later(e, d) == IF e = Never THEN Never ELSE (e + d) % ClockMod

\* the same, forgetting events that are a period or more ago
Recent(e, d, period) ==
    IF e = Never \/ e + d >= period THEN Never ELSE e + d

(***************************************************************************)
(* Unsigned arithmetic of the clock's type.                                *)
(***************************************************************************)
\* conversion of a (signed) int or long to unsigned long
ToUnsigned(x) == x % ClockMod

\* a - b on unsigned long
USub(a, b) == (a - b) % ClockMod

VARIABLES
    now,                    \* the value millis() returns
    pc,                     \* where the thread of control is
    deviceIsOn,             \* bool deviceIsOn
    temperature,            \* float temperature
    humidity,               \* float humidity
    lastTemperature,        \* float lastTemperature
    lastHumidity,           \* float lastHumidity
    lastEvent,              \* unsigned long lastEvent
    LM393_previous_millis,  \* unsigned long LM393_previous_millis
    ran,                    \* handlers called since loop() was last entered
    rainCall,               \* what the last handleRainSensor call did: fired (the
                            \*   sensor was read) at clock value `at`; again: not for
                            \*   the first time; wrapped: the clock had wrapped since
    tempCall,               \* what the last handleTemperaturesensor call did: read
                            \*   the DHT, sent an event, ok: the send succeeded;
                            \*   again: after an earlier successful send; wrapped:
                            \*   the clock had wrapped since that send
    sinceRain,              \* ms since the rain sensor was last read
    sinceDht,               \* ms since the DHT was last read, while under EVENT_WAIT_TIME
    sinceSent,              \* ms since sendTemperatureEvent last succeeded
    okReading,              \* reading of the last successful sendTemperatureEvent
    okAt,                   \* millis() sampled by the call that sent it
    found,                  \* the hardware: would keypad.begin / display.begin succeed
    serverSends,            \* the SinricPro server sends toggle requests in this run
    globalToggleStates,     \* std::map<String, bool> globalToggleStates
    toggleCall,             \* what the last SinricPro.handle / onToggleState call did
    shown,                  \* what handleDisplay printed in this pass of loop()
    pushes,                 \* the push notifications sent so far
    window,                 \* the last verdict acted on: Open or Closed and the
                            \*   reason ("none": no verdict yet)
    keyEvents,              \* the keypad driver's pending raw events
    key                     \* what the last get_key call decoded and returned

vars == <<now, pc, deviceIsOn, temperature, humidity, lastTemperature,
          lastHumidity, lastEvent, LM393_previous_millis, ran, rainCall,
          tempCall, sinceRain, sinceDht, sinceSent, okReading, okAt,
          found, serverSends, globalToggleStates, toggleCall, shown, pushes,
          window, keyEvents, key>>

globals == <<deviceIsOn, temperature, humidity, lastTemperature,
             lastHumidity, lastEvent, LM393_previous_millis>>

observers == <<sinceRain, sinceDht, sinceSent, okReading, okAt>>

hardware == <<found, serverSends>>

cloud == <<globalToggleStates, toggleCall>>

outputs == <<shown, pushes, window>>

keypadState == <<keyEvents, key>>


(***************************************************************************)
(* check_interval: has `interval` ms passed since *previousMillis?         *)
(* The result is the returned bool and the value left in *previousMillis.  *)
(* The subtraction is on unsigned long; the long interval is converted to  *)
(* unsigned long for the comparison.                                       *)
(***************************************************************************)
\* a check_interval that reports the period over but keeps the old baseline
check_interval_keeps(previousMillis, interval) ==
    LET currentMillis == now IN
    [ret |-> USub(currentMillis, previousMillis) >= ToUnsigned(interval),
     previousMillis |-> previousMillis]

\* a check_interval that compares without the unsigned subtraction
check_interval_nowrap(previousMillis, interval) ==
    LET currentMillis == now IN
    IF currentMillis >= previousMillis + interval
    THEN [ret |-> TRUE, previousMillis |-> currentMillis]
    ELSE [ret |-> FALSE, previousMillis |-> previousMillis]

\* a check_interval that takes the interval for seconds
check_interval_seconds(previousMillis, interval) ==
    LET currentMillis == now IN
    IF USub(currentMillis, previousMillis) >= ToUnsigned(interval \div 1000)
    THEN [ret |-> TRUE, previousMillis |-> currentMillis]
    ELSE [ret |-> FALSE, previousMillis |-> previousMillis]

\* a check_interval that moves the baseline on by one interval (catching up)
check_interval_catchup(previousMillis, interval) ==
    LET currentMillis == now IN
    IF USub(currentMillis, previousMillis) >= ToUnsigned(interval)
    THEN [ret |-> TRUE, previousMillis |-> (previousMillis + interval) % ClockMod]
    ELSE [ret |-> FALSE, previousMillis |-> previousMillis]

check_interval(previousMillis, interval) ==
    LET currentMillis == now IN
    IF USub(currentMillis, previousMillis) >= ToUnsigned(interval)
    THEN [ret |-> TRUE, previousMillis |-> currentMillis]
    ELSE [ret |-> FALSE, previousMillis |-> previousMillis]

(***************************************************************************)
(* handleTemperaturesensor, piece by piece.                                *)
(***************************************************************************)
\* line 287: actualMillis - lastEvent < EVENT_WAIT_TIME, on unsigned long
\* the gate with the operands of the subtraction exchanged
TooSoon_swapped(actualMillis, lastEv) ==
    USub(lastEv, actualMillis) < ToUnsigned(EVENT_WAIT_TIME)

TooSoon(actualMillis, lastEv) ==
    USub(actualMillis, lastEv) < ToUnsigned(EVENT_WAIT_TIME)

isnan(x) == x = NaN

\* line 293: the reading failed
\* validity checks that miss a half-failed reading
ReadingFailed_both(t, h) == isnan(t) /\ isnan(h)

ReadingFailed_tempOnly(t, h) == isnan(t)

ReadingFailed(t, h) == isnan(t) \/ isnan(h)

\* lines 298-301: the comparison with the last known values has an empty
\* body, so control reaches the send on both branches
\* a comparison that drops an unchanged reading
AfterCompare_dedup(t, h, lastT, lastH) ==
    IF t = lastT /\ h = lastH THEN "return" ELSE "send"

AfterCompare(t, h, lastT, lastH) ==
    IF t = lastT /\ h = lastH THEN "send" ELSE "send"

\* lines 304-313: the value of a "last" variable after the send
\* a promotion that does not look at the result of the send
Promote_always(success, actual, last) == actual

Promote(success, actual, last) == IF success THEN actual ELSE last

(***************************************************************************)
(* onToggleState: the ToggleController callback.  The result is the        *)
(* returned bool and the map it leaves.                                    *)
(***************************************************************************)
\* the instance names tried by the model; the program registers the first
Instances == {"toggleInstance1", "toggleInstance2", "toggleInstance3", "toggleInstance4"}

\* globalToggleStates[instance] = state on a std::map
MapSet(m, instance, state) ==
    [i \in DOMAIN m \cup {instance} |-> IF i = instance THEN state ELSE m[i]]

\* a callback that stores the state under the registered name only
onToggleState_oneName(states, instance, state) ==
    [ret |-> TRUE, states |-> MapSet(states, "toggleInstance1", state)]

onToggleState(states, instance, state) ==
    [ret |-> TRUE, states |-> MapSet(states, instance, state)]

NoToggle == [called |-> FALSE, instance |-> "", state |-> FALSE, ret |-> FALSE]

(***************************************************************************)
(* get_key: decode one raw event of the keypad driver.                     *)
(***************************************************************************)
ROWS == 4
COLS == 4

keymap ==
    << <<"1", "2", "3", "A">>,
       <<"4", "5", "6", "B">>,
       <<"7", "8", "9", "C">>,
       <<"*", "0", "#", "D">> >>

\* a char: a key symbol, '\0' ("NUL") or anything else ("other")
Chars ==
    {keymap[r][c] : r \in 1..ROWS, c \in 1..COLS} \cup {"NUL", "other"}

\* int division and remainder of C (truncation towards zero)
CDiv(a, b) == IF a >= 0 THEN a \div b ELSE 0 - ((0 - a) \div b)

CMod(a, b) == a - b * CDiv(a, b)

\* conversion to uint8_t
ToUint8(x) == x % 256

\* lines 202-206: pressed, row and col of the raw event k
Decode(k) ==
    LET k1 == (k % 128) - 1 IN
    [pressed |-> (k \div 128) % 2 = 1,
     row |-> ToUint8(CDiv(k1, 10)),
     col |-> ToUint8(CMod(k1, 10))]

\* a lookup with the indices in the order of the table's declaration
keymapAt_rowFirst(col, row) ==
    IF col \in 0..(COLS - 1) /\ row \in 0..(ROWS - 1)
    THEN {keymap[row + 1][col + 1]}
    ELSE Chars

\* line 220: the values keymap[col][row] can have; a read outside the array
\* is undefined and may give any char
keymapAt(col, row) ==
    IF col \in 0..(ROWS - 1) /\ row \in 0..(COLS - 1)
    THEN {keymap[col + 1][row + 1]}
    ELSE Chars

\* the raw events tried by the model: press and release of the sixteen
\* keys, and some values that are not keys of the matrix
NoEvent == 256

RawEvents ==
    {p * 128 + r * 10 + c + 1 : p \in 0..1, r \in 0..(ROWS - 1), c \in 0..(COLS - 1)}
      \cup {0, 5, 41, 127, 128, 255}

NoKey == [raw |-> NoEvent, pressed |-> FALSE, row |-> 0, col |-> 0, ret |-> "NUL"]

(***************************************************************************)
(* The order of the calls in setup() and loop(): where control is after    *)
(* the call at p has returned.  A handler's `return` ends that handler     *)
(* only, so the place does not depend on how the handler returned.         *)
(***************************************************************************)
NextCall(p) ==
    CASE p = "setup_rain"   -> "setup_temp"
      [] p = "setup_temp"   -> "loop_top"
      [] p = "loop_top"     -> "loop_keypad"
      [] p = "loop_keypad"  -> "loop_rain"
      [] p = "loop_rain"    -> "loop_temp"
      [] p = "loop_temp"    -> "loop_display"
      [] p = "loop_display" -> "loop_top"

\* a handler whose early return leaves loop() as well
Return_leavesLoop(p, early) ==
    IF early /\ p \in {"loop_rain", "loop_temp"} THEN "loop_top" ELSE NextCall(p)

Return(p, early) == NextCall(p)

LoopOrder ==
    <<"handleKeypad", "handleRainSensor", "handleTemperaturesensor", "handleDisplay">>

(***************************************************************************)
(* Initial state: the globals as declared (statics are zero-initialized),  *)
(* the clock at boot, control at the start of setup().                     *)
(***************************************************************************)
InitBut(on, keypadFound, displayFound, sends) ==
    /\ now = 0
    /\ pc = "setup"
    /\ deviceIsOn = on
    /\ temperature = 0
    /\ humidity = 0
    /\ lastTemperature = 0
    /\ lastHumidity = 0
    /\ lastEvent = ToUnsigned(-EVENT_WAIT_TIME)
    /\ LM393_previous_millis = 0
    /\ ran = <<>>
    /\ rainCall = [fired |-> FALSE, at |-> 0, again |-> FALSE, wrapped |-> FALSE,
                   digital |-> NoSample]
    /\ tempCall = [read |-> FALSE, sent |-> FALSE, ok |-> FALSE,
                   again |-> FALSE, wrapped |-> FALSE]
    /\ sinceRain = Never
    /\ sinceDht = Never
    /\ sinceSent = Never
    /\ okReading = <<0, 0>>
    /\ okAt = Never
    /\ found = [keypad |-> keypadFound, display |-> displayFound]
    /\ serverSends = sends
    /\ globalToggleStates = << >>
    /\ toggleCall = NoToggle
    /\ shown = << >>
    /\ pushes = << >>
    /\ window = [verdict |-> "none", reason |-> "None"]
    /\ keyEvents = << >>
    /\ key = NoKey

\* the program, with or without a keypad and a display attached
Init == \E k \in BOOLEAN, d \in BOOLEAN : InitBut(FALSE, k, d, TRUE)

\* handleTemperaturesensor as a unit: deviceIsOn is an input of the handler
\* (the file reads it and never writes it), so both values are tried.
\* The display is attached and the server sends no toggle requests.
InitHandlers == \E on \in BOOLEAN, k \in BOOLEAN : InitBut(on, k, TRUE, FALSE)

(***************************************************************************)
(* The clock moves on.                                                     *)
(***************************************************************************)
Advance ==
    /\ now' = NextPoint(now)
    /\ sinceRain' = Later(sinceRain, Delta(now))
    /\ sinceDht' = Recent(sinceDht, Delta(now), EVENT_WAIT_TIME)
    /\ sinceSent' = Later(sinceSent, Delta(now))
    /\ UNCHANGED <<pc, globals, ran, rainCall, tempCall, okReading, okAt,
                   hardware, cloud, outputs, keypadState>>

(***************************************************************************)
(* setup(), lines 483-490: serial, pins, setupKeypad (which traps the      *)
(* program in while(1) when the keypad is not found), WiFi, SinricPro and  *)
(* the "online" notification.  The two initial readings follow as calls    *)
(* of the handlers.  setupDisplay is not called.                           *)
(***************************************************************************)
setup ==
    /\ pc = "setup"
    /\ pc' = IF found.keypad THEN "setup_rain" ELSE "halted"
    /\ pushes' = IF found.keypad THEN Append(pushes, "ESP Device is online")
                 ELSE pushes
    /\ UNCHANGED <<now, globals, ran, rainCall, tempCall, observers,
                   hardware, cloud, shown, window, keypadState>>

(***************************************************************************)
(* handleRainSensor: called from setup() and from loop().  The value of    *)
(* digitalRead is an input; analogRead is read with it and only printed.   *)
(***************************************************************************)
\* a rain handler that keeps its time in lastEvent
handleRainSensor_onLastEvent ==
    /\ pc \in {"setup_rain", "loop_rain"}
    /\ \E rainDigitalVal \in {Wet, Dry} :
       LET r == check_interval(lastEvent, LM393_sample_interval) IN
         /\ lastEvent' = r.previousMillis
         /\ rainCall' = [fired |-> r.ret,
                         at |-> IF r.ret THEN now ELSE 0,
                         again |-> r.ret /\ sinceRain # Never,
                         wrapped |-> FALSE,
                         digital |-> IF r.ret THEN rainDigitalVal
                                     ELSE rainCall.digital]
         /\ sinceRain' = IF r.ret THEN 0 ELSE sinceRain
         /\ pc' = NextCall(pc)
    /\ ran' = Append(ran, "handleRainSensor")
    /\ UNCHANGED <<now, deviceIsOn, temperature, humidity, lastTemperature,
                   lastHumidity, LM393_previous_millis, tempCall, sinceDht,
                   sinceSent, okReading, okAt, hardware, cloud, outputs,
                   keypadState>>

handleRainSensor ==
    /\ pc \in {"setup_rain", "loop_rain"}
    /\ \E rainDigitalVal \in {Wet, Dry} :
       LET r == check_interval(LM393_previous_millis, LM393_sample_interval) IN
         /\ LM393_previous_millis' = r.previousMillis
         /\ rainCall' = [fired |-> r.ret,
                         at |-> IF r.ret THEN now ELSE 0,
                         again |-> r.ret /\ sinceRain # Never,
                         wrapped |-> r.ret /\ sinceRain # Never
                                       /\ now < LM393_previous_millis,
                         digital |-> IF r.ret THEN rainDigitalVal
                                     ELSE rainCall.digital]
         /\ sinceRain' = IF r.ret THEN 0 ELSE sinceRain
         /\ pc' = Return(pc, ~r.ret)
    /\ ran' = Append(ran, "handleRainSensor")
    /\ UNCHANGED <<now, deviceIsOn, temperature, humidity, lastTemperature,
                   lastHumidity, lastEvent, tempCall, sinceDht, sinceSent,
                   okReading, okAt, hardware, cloud, outputs, keypadState>>

(***************************************************************************)
(* handleTemperaturesensor: called from setup() and from loop().  The DHT  *)
(* driver's answer and the result of sendTemperatureEvent are inputs.      *)
(***************************************************************************)
handleTemperaturesensor ==
    /\ pc \in {"setup_temp", "loop_temp"}
    /\ \E sample \in DHTSamples, success \in BOOLEAN :
         LET actualMillis == now
             t == sample[1]
             h == sample[2]
             gated == deviceIsOn = FALSE \/ TooSoon(actualMillis, lastEvent)
             failed == ReadingFailed(t, h)
             sends == ~gated /\ ~failed
                        /\ AfterCompare(t, h, lastTemperature, lastHumidity) = "send"
             done == sends /\ success
         IN
         /\ temperature' = IF gated THEN temperature ELSE t
         /\ humidity' = IF gated THEN humidity ELSE h
         /\ lastTemperature' = IF sends THEN Promote(success, t, lastTemperature)
                               ELSE lastTemperature
         /\ lastHumidity' = IF sends THEN Promote(success, h, lastHumidity)
                            ELSE lastHumidity
         /\ lastEvent' = IF sends THEN Promote(success, actualMillis, lastEvent)
                         ELSE lastEvent
         /\ tempCall' = [read |-> ~gated, sent |-> sends, ok |-> done,
                         again |-> ~gated /\ sinceSent # Never,
                         wrapped |-> ~gated /\ sinceSent # Never
                                       /\ actualMillis < lastEvent]
         /\ sinceDht' = IF gated THEN sinceDht ELSE 0
         /\ sinceSent' = IF done THEN 0 ELSE sinceSent
         /\ okReading' = IF done THEN <<t, h>> ELSE okReading
         /\ okAt' = IF done THEN actualMillis ELSE okAt
         /\ pc' = Return(pc, ~done)
    /\ ran' = Append(ran, "handleTemperaturesensor")
    /\ UNCHANGED <<now, deviceIsOn, LM393_previous_millis, rainCall, sinceRain,
                   hardware, cloud, outputs, keypadState>>

(***************************************************************************)
(* loop(): SinricPro.handle(), then the four handlers.                     *)
(***************************************************************************)
\* a toggle callback written like a power-state callback: the requested
\* state is stored in deviceIsOn too
SinricPro_handle_setsDevice ==
    /\ pc = "loop_top"
    /\ pc' = NextCall(pc)
    /\ ran' = <<>>
    /\ shown' = << >>
    /\ \/ /\ toggleCall' = NoToggle
          /\ UNCHANGED <<globalToggleStates, deviceIsOn>>
       \/ /\ serverSends
          /\ \E state \in BOOLEAN :
               LET r == onToggleState(globalToggleStates, "toggleInstance1", state) IN
               /\ globalToggleStates' = r.states
               /\ deviceIsOn' = state
               /\ toggleCall' = [called |-> TRUE, instance |-> "toggleInstance1",
                                 state |-> state, ret |-> r.ret]
    /\ UNCHANGED <<now, temperature, humidity, lastTemperature, lastHumidity,
                   lastEvent, LM393_previous_millis, rainCall, tempCall,
                   observers, hardware, pushes, window, keypadState>>

\* SinricPro.handle() delivers at most one toggle request, for the
\* registered instance (line 428), to onToggleState.
SinricPro_handle ==
    /\ pc = "loop_top"
    /\ pc' = NextCall(pc)
    /\ ran' = <<>>
    /\ shown' = << >>
    /\ \/ /\ toggleCall' = NoToggle
          /\ UNCHANGED globalToggleStates
       \/ /\ serverSends
          /\ \E state \in BOOLEAN :
               LET r == onToggleState(globalToggleStates, "toggleInstance1", state) IN
               /\ globalToggleStates' = r.states
               /\ toggleCall' = [called |-> TRUE, instance |-> "toggleInstance1",
                                 state |-> state, ret |-> r.ret]
    /\ UNCHANGED <<now, globals, rainCall, tempCall, observers, hardware,
                   pushes, window, keypadState>>

\* handleKeypad: its body is commented out
handleKeypad ==
    /\ pc = "loop_keypad"
    /\ pc' = Return(pc, FALSE)
    /\ ran' = Append(ran, "handleKeypad")
    /\ UNCHANGED <<now, globals, rainCall, tempCall, observers, hardware,
                   cloud, outputs, keypadState>>

\* handleDisplay: prints temperature and humidity
handleDisplay ==
    /\ pc = "loop_display"
    /\ pc' = Return(pc, FALSE)
    /\ ran' = Append(ran, "handleDisplay")
    /\ shown' = <<temperature, humidity>>
    /\ UNCHANGED <<now, globals, rainCall, tempCall, observers, hardware,
                   cloud, pushes, window, keypadState>>

Next ==
    \/ Advance
    \/ setup
    \/ handleRainSensor
    \/ handleTemperaturesensor
    \/ SinricPro_handle
    \/ handleKeypad
    \/ handleDisplay

\* the program
Spec == Init /\ [][Next]_vars

\* the handlers under either value of deviceIsOn
SpecHandlers == InitHandlers /\ [][Next]_vars

\* the calls of setup() and loop(), as opposed to the passing of time
Call ==
    \/ setup
    \/ handleRainSensor
    \/ handleTemperaturesensor
    \/ SinricPro_handle
    \/ handleKeypad
    \/ handleDisplay

\* the program, running: the thread of control never stops between two
\* calls (setup's WiFi wait ends), and time passes
FairSpec == Init /\ [][Next]_vars /\ WF_vars(Call) /\ WF_vars(Advance)

(***************************************************************************)
(* get_key on its own.  loop() never calls it (the body of handleKeypad is *)
(* commented out), so it is exercised here against a keypad driver that    *)
(* queues up to MaxPending raw events.                                     *)
(***************************************************************************)
\* the keypad driver records a raw event
KeyEvent ==
    /\ Len(keyEvents) < MaxPending
    /\ \E k \in RawEvents : keyEvents' = Append(keyEvents, k)
    /\ UNCHANGED <<now, pc, globals, ran, rainCall, tempCall, observers,
                   hardware, cloud, outputs, key>>

get_key ==
    /\ IF keyEvents = << >>
       THEN /\ key' = NoKey
            /\ UNCHANGED keyEvents
       ELSE LET k == Head(keyEvents)
                d == Decode(k)
            IN
            /\ keyEvents' = Tail(keyEvents)
            /\ \E c \in keymapAt(d.col, d.row) :
                 key' = [raw |-> k, pressed |-> d.pressed, row |-> d.row,
                         col |-> d.col, ret |-> c]
    /\ UNCHANGED <<now, pc, globals, ran, rainCall, tempCall, observers,
                   hardware, cloud, outputs>>

NextKeypad ==
    \/ KeyEvent
    \/ get_key

SpecKeypad == Init /\ [][NextKeypad]_vars

(***************************************************************************)
(* onToggleState on its own: called for any instance name and state.       *)
(***************************************************************************)
ToggleRequest ==
    /\ \E instance \in Instances, state \in BOOLEAN :
         LET r == onToggleState(globalToggleStates, instance, state) IN
         /\ globalToggleStates' = r.states
         /\ toggleCall' = [called |-> TRUE, instance |-> instance,
                           state |-> state, ret |-> r.ret]
    /\ UNCHANGED <<now, pc, globals, ran, rainCall, tempCall, observers,
                   hardware, outputs, keypadState>>

NextToggle == ToggleRequest

SpecToggle == Init /\ [][NextToggle]_vars

(***************************************************************************)
(* Properties.                                                             *)
(***************************************************************************)

\* C1: a check_interval call at clock value now on the rain timer returns
\* true and sets the baseline to now when now - baseline >= interval (on the
\* clock's unsigned type), otherwise returns false and leaves the baseline;
\* and when the call before it returned true at t1, it returns true iff
\* now - t1 >= interval.
C1_CheckInterval ==
    [][handleRainSensor =>
         LET open == (now - LM393_previous_millis) % ClockMod >= LM393_sample_interval IN
         /\ rainCall'.fired = open
         /\ LM393_previous_millis' = IF open THEN now ELSE LM393_previous_millis
         /\ rainCall.fired =>
              (rainCall'.fired <=> (now - rainCall.at) % ClockMod >= LM393_sample_interval)
      ]_vars

\* a call has returned false less than a period after one that returned true
C1_Witness ==
    /\ ~rainCall.fired
    /\ sinceRain # Never
    /\ sinceRain < LM393_sample_interval
    /\ LM393_previous_millis # now

\* C2: both gates are right across the wrap of the clock: once a gate has
\* fired, a later call opens it exactly when the time passed since that
\* firing, counted modulo the clock's range, is at least the period.
C2_GatesAcrossWrap ==
    [][/\ (handleRainSensor /\ sinceRain # Never) =>
            (rainCall'.fired <=> sinceRain >= LM393_sample_interval)
       /\ (handleTemperaturesensor /\ deviceIsOn /\ sinceSent # Never) =>
            (tempCall'.read <=> sinceSent >= EVENT_WAIT_TIME)
      ]_vars

\* both gates have opened with the clock wrapped since their last firing
C2_Witness == rainCall.wrapped /\ tempCall.wrapped

C4_GatedCallDoesNothing ==
    [][(handleTemperaturesensor
          /\ (~deviceIsOn \/ (now - lastEvent) % ClockMod < EVENT_WAIT_TIME)) =>
         /\ ~tempCall'.read
         /\ ~tempCall'.sent
         /\ UNCHANGED <<temperature, humidity, lastTemperature, lastHumidity, lastEvent>>
      ]_vars

\* a call in loop() has just returned without reading, the device being on
\* and the last successful send less than a period ago
C4_Witness ==
    /\ pc = "loop_display"
    /\ deviceIsOn
    /\ ~tempCall.read
    /\ sinceSent # Never
    /\ sinceSent < EVENT_WAIT_TIME

\* C5: when the DHT is read and temperature or humidity is NaN, no event is
\* sent, lastTemperature, lastHumidity and lastEvent are unchanged, and the
\* gate is still open when the call returns (so the next call reads again).
C5_NaNDiscarded ==
    [][(handleTemperaturesensor /\ tempCall'.read
          /\ (temperature' = NaN \/ humidity' = NaN)) =>
         /\ ~tempCall'.sent
         /\ UNCHANGED <<lastTemperature, lastHumidity, lastEvent>>
         /\ (now' - lastEvent') % ClockMod >= EVENT_WAIT_TIME
      ]_vars

\* a NaN humidity has been discarded while a baseline from an earlier send exists
C5_Witness ==
    /\ tempCall.read
    /\ ~tempCall.sent
    /\ temperature # NaN
    /\ humidity = NaN
    /\ okAt # Never

\* C6: when sendTemperatureEvent fails, lastTemperature, lastHumidity and
\* lastEvent keep their values and the gate is still open when the call
\* returns (so the next call sends again).
C6_FailedSendNotPromoted ==
    [][(handleTemperaturesensor /\ tempCall'.sent /\ ~tempCall'.ok) =>
         /\ UNCHANGED <<lastTemperature, lastHumidity, lastEvent>>
         /\ (now' - lastEvent') % ClockMod >= EVENT_WAIT_TIME
      ]_vars

\* a send of a reading that differs from the baseline has failed
C6_Witness ==
    /\ tempCall.sent
    /\ ~tempCall.ok
    /\ okAt # Never
    /\ temperature # lastTemperature
    /\ humidity # lastHumidity

\* C7: once a send has succeeded, lastTemperature and lastHumidity are the
\* reading of the most recent successful send and lastEvent is the clock
\* value sampled by that call; until then they have their initial values;
\* they are never NaN.
C7_BaselineIsLastSuccess ==
    /\ lastTemperature # NaN
    /\ lastHumidity # NaN
    /\ okAt # Never =>
         /\ lastTemperature = okReading[1]
         /\ lastHumidity = okReading[2]
         /\ lastEvent = okAt
    /\ okAt = Never =>
         /\ lastTemperature = 0
         /\ lastHumidity = 0
         /\ lastEvent = (0 - EVENT_WAIT_TIME) % ClockMod

\* after a successful send, a later call has read the DHT at another clock
\* value without a successful send
C7_Witness ==
    /\ okAt # Never
    /\ okAt # now
    /\ tempCall.read
    /\ ~tempCall.ok
    /\ sinceDht = 0

C9_EventuallySent == (pc = "loop_top") ~> tempCall.sent

\* C10: in loop() the calls follow one another in the order handleKeypad,
\* handleRainSensor, handleTemperaturesensor, handleDisplay, however each
\* call returned, and when handleDisplay returns all four have run.
C10_AllHandlersRun ==
    [][/\ (pc = "loop_keypad" /\ pc' # pc) => pc' = "loop_rain"
       /\ (pc = "loop_rain" /\ pc' # pc) => pc' = "loop_temp"
       /\ (pc = "loop_temp" /\ pc' # pc) => pc' = "loop_display"
       /\ (pc = "loop_display" /\ pc' # pc) => (pc' = "loop_top" /\ ran' = LoopOrder)
      ]_vars

\* a pass of loop() is complete in which the rain gate was closed and the
\* DHT read failed
C10_Witness ==
    /\ pc = "loop_top"
    /\ ran = LoopOrder
    /\ ~rainCall.fired
    /\ tempCall.read
    /\ ~tempCall.sent

C12_RainCloses ==
    [][(handleRainSensor /\ rainCall'.fired /\ rainCall'.digital = Wet) =>
         /\ window' = [verdict |-> "Closed", reason |-> "Rain"]
         /\ Len(pushes') = Len(pushes) + 1
      ]_vars

C14_NotifyOnEdge ==
    [][(handleRainSensor /\ rainCall'.fired /\ rainCall'.digital = Wet) =>
         Len(pushes') = Len(pushes) + (IF rainCall.digital = Wet THEN 0 ELSE 1)
      ]_vars

C16_NoLoopWithoutDrivers ==
    (~found.keypad \/ ~found.display) => pc \in {"setup", "halted"}

\* C17 (as claimed): LM393_previous_millis and lastEvent never decrease.
C17_TimersNeverDecrease ==
    [][/\ LM393_previous_millis' >= LM393_previous_millis
       /\ lastEvent' >= lastEvent
      ]_vars

\* C17 (amended): LM393_previous_millis and lastEvent change only to the
\* clock value of the call, and decrease only when the clock has passed 0
\* since the old value was stored or, for lastEvent, when the old value is
\* the initial one.
C17_TimersFollowClock ==
    [][/\ LM393_previous_millis' # LM393_previous_millis =>
            /\ LM393_previous_millis' = now
            /\ LM393_previous_millis' < LM393_previous_millis =>
                 (sinceRain # Never /\ LM393_previous_millis + sinceRain >= ClockMod)
       /\ lastEvent' # lastEvent =>
            /\ lastEvent' = now
            /\ lastEvent' < lastEvent =>
                 \/ okAt = Never
                 \/ (sinceSent # Never /\ lastEvent + sinceSent >= ClockMod)
      ]_vars

\* both timers hold a clock value taken after the clock wrapped
C17_Witness ==
    /\ rainCall.wrapped
    /\ LM393_previous_millis = rainCall.at
    /\ tempCall.wrapped
    /\ tempCall.ok
    /\ lastEvent = okAt

\* C18: a callback onToggleState(instance, state) returns true, leaves
\* globalToggleStates[instance] = state and leaves the entries of all other
\* instances as they were.
C18_ToggleLastWriterWins ==
    [][ToggleRequest =>
         LET i == toggleCall'.instance IN
         /\ toggleCall'.called
         /\ toggleCall'.ret = TRUE
         /\ DOMAIN globalToggleStates' = DOMAIN globalToggleStates \cup {i}
         /\ globalToggleStates'[i] = toggleCall'.state
         /\ \A j \in DOMAIN globalToggleStates \ {i} :
              globalToggleStates'[j] = globalToggleStates[j]
      ]_vars

\* a callback has set one instance while another holds the opposite state
C18_Witness ==
    /\ toggleCall.called
    /\ \E j \in DOMAIN globalToggleStates \ {toggleCall.instance} :
         globalToggleStates[j] # toggleCall.state

\* C19: handleRainSensor writes no global but LM393_previous_millis, sends
\* no event and no notification and gives no window command;
\* handleTemperaturesensor does not write LM393_previous_millis.
C19_RainOnlyObserves ==
    [][/\ handleRainSensor =>
            UNCHANGED <<deviceIsOn, temperature, humidity, lastTemperature,
                        lastHumidity, lastEvent, globalToggleStates, tempCall,
                        okReading, okAt, pushes, window>>
       /\ handleTemperaturesensor => UNCHANGED LM393_previous_millis
      ]_vars

\* the rain sensor has just been read in loop(), a baseline being set
C19_Witness ==
    /\ pc = "loop_temp"
    /\ rainCall.fired
    /\ sinceRain = 0
    /\ okAt # Never
    /\ LM393_previous_millis # lastEvent

\* C20 (as claimed): the two calls at the end of setup() read the rain
\* sensor and the DHT, at whatever clock value they are made.
C20_InitialReadings ==
    [][/\ (pc = "setup_rain" /\ handleRainSensor) => rainCall'.fired
       /\ (pc = "setup_temp" /\ handleTemperaturesensor) => tempCall'.read
      ]_vars

\* C21: in the program deviceIsOn is false in every state: no step writes
\* it, a toggle request writes only globalToggleStates, and every call of
\* handleTemperaturesensor returns at its first check, without reading the
\* DHT and without calling sendTemperatureEvent.
C21_DeviceNeverOn ==
    /\ [](deviceIsOn = FALSE)
    /\ [][/\ deviceIsOn' = deviceIsOn
          /\ handleTemperaturesensor =>
                /\ ~tempCall'.read
                /\ ~tempCall'.sent
                /\ <<temperature, humidity, lastTemperature, lastHumidity,
                      lastEvent>>' =
                   <<temperature, humidity, lastTemperature, lastHumidity,
                     lastEvent>>
         ]_vars

\* the server has asked to switch the toggle on, and in the same pass of
\* loop() handleTemperaturesensor was called at a clock value where the
\* time gate is open
C21_Witness ==
    /\ pc = "loop_display"
    /\ toggleCall.called
    /\ toggleCall.state
    /\ ~TooSoon(now, lastEvent)
    /\ ~tempCall.read

\* C22 (as claimed): whatever raw event get_key takes from the driver, the
\* row and the col it computes are both in 0..3 when they index keymap.
C22_LookupInBounds ==
    key.raw # NoEvent =>
        /\ key.row \in 0..(ROWS - 1)
        /\ key.col \in 0..(COLS - 1)

====
